---- MODULE Spec2Model ----
(***************************************************************************)
(* TDequeConcurrent<T> (src/concurrent_deque/TDequeConcurrent.h): a        *)
(* std::deque guarded by one std::mutex and one std::condition_variable.   *)
(* Every public method is modelled statement by statement: each thread has *)
(* a program position pc[t] inside the method op[t] it is executing.       *)
(***************************************************************************)
EXTENDS Integers, Sequences, FiniteSets, TLC

\* ---------------------------------------------------------------- bounds
MaxCalls == 3      \* total number of method calls made by all threads
MaxVal == 2        \* payload values are 1..MaxVal

Threads == {"t1", "t2", "t3"}
Values == 1..MaxVal
\* An argument pack whose construction of T throws (no payload value).
BadArg == -1
Args == Values \cup {BadArg}

\* ------------------------------------------------------------ the methods
InsertOps == {"emplace_front", "emplace_back", "push_front", "push_back"}
FrontInsertOps == {"emplace_front", "push_front"}
PeekOps == {"front", "back"}
PopOps == {"pop_front", "pop_back"}
\* the methods that wait in a "while (_collection.empty())" loop
LoopOps == PeekOps \cup PopOps \cup {"size"}
Operations == InsertOps \cup LoopOps \cup {"empty", "clear"}

VARIABLES
    collection,   \* _collection: the std::deque, front first
    holds,        \* _mutex: holds[t] iff thread t owns the mutex
    waiters,      \* _condNewData: the threads blocked inside wait()
    pc,           \* position of each thread inside its method
    op,           \* the method each thread is executing ("none" outside)
    arg,          \* the argument pack of an insertion in progress
    ret,          \* the T or uint value the method is about to return
    retb,         \* the bool value empty() is about to return
    calls,        \* number of calls made so far
    starved,      \* history: t called a pop on an empty deque and no
                  \* insertion has happened since
    ub,           \* history: a pop or peek ran on an empty std::deque
    log,          \* history: the lock-held insertions, removals, peeks and
                  \* clears, in the order in which they were executed
    recording     \* history: whether log is kept (the general specification
                  \* leaves it off; it never changes)

vars == <<collection, holds, waiters, pc, op, arg, ret, retb, calls, starved, ub,
          log, recording>>

\* One entry of log: thread t executed the protected statement of method o
\* on element v (inserted, removed or peeked) and is to return r.
Entry(t, o, v, r) == [t |-> t, op |-> o, v |-> v, r |-> r]
Record(e) == IF recording THEN Append(log, e) ELSE log

\* ----------------------------------------------------------- std::mutex
\* (a lock() that does not exclude)
MutexFree_NoExclusion == TRUE

\* std::mutex::lock() returns only when no thread owns the mutex.
MutexFree == \A u \in Threads : ~holds[u]

\* ------------------------------------------------- std::condition_variable
\* (a notification that wakes nobody; a notify_all in place of notify_one)
WakeSets_NoWake == {{}}
WakeSets_NotifyAll == {waiters}

\* notify_one(): wakes one of the blocked threads, none if there is none.
WakeSets == IF waiters = {} THEN {{}} ELSE {{w} : w \in waiters}

\* (a wait that blocks with the mutex still held)
WaitRelease_KeepsLock(t) == holds

\* wait(lock) releases the mutex while the thread is blocked.
WaitRelease(t) == [holds EXCEPT ![t] = FALSE]

\* ------------------------------------------------------------- std::deque
\* (insertion at the wrong end; a lost insertion; a removal that removes
\* nothing)
PushFront_AtBack(s, v) == Append(s, v)
PushBack_Drops(s, v) == s
PushBack_AtFront(s, v) == <<v>> \o s
PopFront_Keeps(s) == s

PushFront(s, v) == <<v>> \o s
PushBack(s, v) == Append(s, v)
PopFront(s) == Tail(s)
PopBack(s) == SubSeq(s, 1, Len(s) - 1)

\* &_collection.front() / &_collection.back(): the address of the slot of
\* the deque that stores the element, as a value of T.  Slot addresses are
\* disjoint from the payload values (which never exceed MaxVal + MaxCalls).
AddressOfSlot(i) == MaxVal + MaxCalls + i
FrontAddress(s) == AddressOfSlot(1)
BackAddress(s) == AddressOfSlot(Len(s))

\* (the loop left out)
MustWait_NoLoop == FALSE

\* the condition of "while (_collection.empty())"
MustWait == collection = <<>>

\* (clear() waiting for data like the blocking methods)
AfterLock_ClearWaits(o) ==
    IF o \in LoopOps \cup {"clear"} THEN "test"
    ELSE IF o = "empty" THEN "wait"
    ELSE "body"

\* Where a method goes once its unique_lock / lock_guard is constructed.
AfterLock(o) ==
    IF o \in LoopOps THEN "test"
    ELSE IF o = "empty" THEN "wait"
    ELSE "body"

\* (an "if" in place of the "while": no re-test after the wait)
AfterWait_NoRetest(o) == "body"

\* Where a method goes once wait() has reacquired the mutex.
AfterWait(o) == IF o = "empty" THEN "body" ELSE "test"

TypeOK ==
    /\ collection \in Seq(Values)
    /\ holds \in [Threads -> BOOLEAN]
    /\ waiters \subseteq Threads
    /\ pc \in [Threads -> {"idle", "lock", "test", "wait", "waiting", "relock",
                           "body", "unlock", "unwind", "notify"}]
    /\ op \in [Threads -> Operations \cup {"none"}]
    /\ arg \in [Threads -> Args]
    /\ ret \in [Threads -> Nat]
    /\ retb \in [Threads -> BOOLEAN]
    /\ calls \in 0..MaxCalls
    /\ starved \in [Threads -> BOOLEAN]
    /\ ub \in BOOLEAN
    /\ log = <<>>
    /\ recording = FALSE

\* the state after the default construction of a TDequeConcurrent<T>
Construct ==
    /\ collection = <<>>
    /\ holds = [t \in Threads |-> FALSE]
    /\ waiters = {}
    /\ pc = [t \in Threads |-> "idle"]
    /\ op = [t \in Threads |-> "none"]
    /\ arg = [t \in Threads |-> BadArg]
    /\ ret = [t \in Threads |-> 0]
    /\ retb = [t \in Threads |-> FALSE]
    /\ calls = 0
    /\ starved = [t \in Threads |-> FALSE]
    /\ ub = FALSE
    /\ log = <<>>

Init == Construct /\ recording = FALSE

\* the same, with the history kept
InitH == Construct /\ recording = TRUE

\* ------------------------------------------------------------ the actions
\* A thread calls method o; an insertion carries the argument pack v.
Invoke(t, o, v) ==
    /\ pc[t] = "idle"
    /\ calls < MaxCalls
    /\ pc' = [pc EXCEPT ![t] = "lock"]
    /\ op' = [op EXCEPT ![t] = o]
    /\ arg' = [arg EXCEPT ![t] = v]
    /\ calls' = calls + 1
    /\ starved' = [starved EXCEPT ![t] = (o \in PopOps /\ collection = <<>>)]
    /\ UNCHANGED <<collection, holds, waiters, ret, retb, ub, log, recording>>

Call(t) ==
    \E o \in Operations :
        \E v \in (IF o \in InsertOps THEN Args ELSE {BadArg}) : Invoke(t, o, v)

\* std::unique_lock<std::mutex> lock{_mutex};  std::lock_guard lock(_mutex);
Lock(t) ==
    /\ pc[t] = "lock"
    /\ MutexFree
    /\ holds' = [holds EXCEPT ![t] = TRUE]
    /\ pc' = [pc EXCEPT ![t] = AfterLock(op[t])]
    /\ UNCHANGED <<collection, waiters, op, arg, ret, retb, calls, starved,
                 ub, log, recording>>

\* while (_collection.empty())
Test(t) ==
    /\ pc[t] = "test"
    /\ pc' = [pc EXCEPT ![t] = IF MustWait THEN "wait" ELSE "body"]
    /\ UNCHANGED <<collection, holds, waiters, op, arg, ret, retb, calls,
                 starved, ub, log, recording>>

\* _condNewData.wait(lock): release the mutex and block, atomically
Wait(t) ==
    /\ pc[t] = "wait"
    /\ holds' = WaitRelease(t)
    /\ waiters' = waiters \cup {t}
    /\ pc' = [pc EXCEPT ![t] = "waiting"]
    /\ UNCHANGED <<collection, op, arg, ret, retb, calls, starved, ub, log,
                 recording>>

\* a blocked thread may wake without any notification
SpuriousWakeup(t) ==
    /\ t \in waiters
    /\ waiters' = waiters \ {t}
    /\ pc' = [pc EXCEPT ![t] = "relock"]
    /\ UNCHANGED <<collection, holds, op, arg, ret, retb, calls, starved, ub,
                 log, recording>>

\* wait() reacquires the mutex before it returns
Relock(t) ==
    /\ pc[t] = "relock"
    /\ MutexFree
    /\ holds' = [holds EXCEPT ![t] = TRUE]
    /\ pc' = [pc EXCEPT ![t] = AfterWait(op[t])]
    /\ UNCHANGED <<collection, waiters, op, arg, ret, retb, calls, starved,
                 ub, log, recording>>

\* fct() of addData_protected: the lambda of the four insertion methods
Insert(t) ==
    /\ pc[t] = "body"
    /\ op[t] \in InsertOps
    /\ IF arg[t] = BadArg
       THEN /\ pc' = [pc EXCEPT ![t] = "unwind"]
            /\ UNCHANGED <<collection, starved, log>>
       ELSE /\ collection' = IF op[t] \in FrontInsertOps
                             THEN PushFront(collection, arg[t])
                             ELSE PushBack(collection, arg[t])
            /\ starved' = [u \in Threads |-> FALSE]
            /\ log' = Record(Entry(t, op[t], arg[t], 0))
            /\ pc' = [pc EXCEPT ![t] = "unlock"]
    /\ UNCHANGED <<holds, waiters, op, arg, ret, retb, calls, ub, recording>>

\* return &_collection.front();   return &_collection.back();
Peek(t) ==
    /\ pc[t] = "body"
    /\ op[t] \in PeekOps
    /\ IF collection = <<>>
       THEN /\ ub' = TRUE
            /\ \E r \in Values : ret' = [ret EXCEPT ![t] = r]
            /\ UNCHANGED log
       ELSE /\ ret' = [ret EXCEPT ![t] = IF op[t] = "front"
                                         THEN FrontAddress(collection)
                                         ELSE BackAddress(collection)]
            /\ log' = Record(Entry(t, op[t],
                                   IF op[t] = "front" THEN Head(collection)
                                   ELSE collection[Len(collection)],
                                   ret'[t]))
            /\ UNCHANGED ub
    /\ pc' = [pc EXCEPT ![t] = "unlock"]
    /\ UNCHANGED <<collection, holds, waiters, op, arg, retb, calls, starved,
                 recording>>

\* _collection.pop_front();   _collection.pop_back();
Pop(t) ==
    /\ pc[t] = "body"
    /\ op[t] \in PopOps
    /\ IF collection = <<>>
       THEN /\ ub' = TRUE
            /\ UNCHANGED <<collection, log>>
       ELSE /\ collection' = IF op[t] = "pop_front"
                             THEN PopFront(collection)
                             ELSE PopBack(collection)
            /\ log' = Record(Entry(t, op[t],
                                   IF op[t] = "pop_front" THEN Head(collection)
                                   ELSE collection[Len(collection)],
                                   0))
            /\ UNCHANGED ub
    /\ pc' = [pc EXCEPT ![t] = "unlock"]
    /\ UNCHANGED <<holds, waiters, op, arg, ret, retb, calls, starved,
                 recording>>

\* (a clear that leaves the last element in place)
Clear_LeavesOne(t) ==
    /\ pc[t] = "body"
    /\ op[t] = "clear"
    /\ collection' = IF collection = <<>> THEN <<>>
                     ELSE <<collection[Len(collection)]>>
    /\ log' = Record(Entry(t, op[t], 0, 0))
    /\ pc' = [pc EXCEPT ![t] = "unlock"]
    /\ UNCHANGED <<holds, waiters, op, arg, ret, retb, calls, starved, ub,
                   recording>>

\* _collection.clear();
Clear(t) ==
    /\ pc[t] = "body"
    /\ op[t] = "clear"
    /\ collection' = <<>>
    /\ log' = Record(Entry(t, op[t], 0, 0))
    /\ pc' = [pc EXCEPT ![t] = "unlock"]
    /\ UNCHANGED <<holds, waiters, op, arg, ret, retb, calls, starved, ub,
                 recording>>

\* auto elem = std::move(_collection.size());
Size(t) ==
    /\ pc[t] = "body"
    /\ op[t] = "size"
    /\ ret' = [ret EXCEPT ![t] = Len(collection)]
    /\ pc' = [pc EXCEPT ![t] = "unlock"]
    /\ UNCHANGED <<collection, holds, waiters, op, arg, retb, calls, starved,
                 ub, log, recording>>

\* auto elem = std::move(_collection.empty());
Empty(t) ==
    /\ pc[t] = "body"
    /\ op[t] = "empty"
    /\ retb' = [retb EXCEPT ![t] = (collection = <<>>)]
    /\ pc' = [pc EXCEPT ![t] = "unlock"]
    /\ UNCHANGED <<collection, holds, waiters, op, arg, ret, calls, starved,
                 ub, log, recording>>

\* lock.unlock() of addData_protected; in the other methods the destructor
\* of the lock at the return, which ends the call.
Unlock(t) ==
    /\ pc[t] = "unlock"
    /\ holds' = [holds EXCEPT ![t] = FALSE]
    /\ IF op[t] \in InsertOps
       THEN /\ pc' = [pc EXCEPT ![t] = "notify"]
            /\ UNCHANGED <<op, arg, ret, retb, starved>>
       ELSE /\ pc' = [pc EXCEPT ![t] = "idle"]
            /\ op' = [op EXCEPT ![t] = "none"]
            /\ arg' = [arg EXCEPT ![t] = BadArg]
            /\ ret' = [ret EXCEPT ![t] = 0]
            /\ retb' = [retb EXCEPT ![t] = FALSE]
            /\ starved' = [starved EXCEPT ![t] = FALSE]
    /\ UNCHANGED <<collection, waiters, calls, ub, log, recording>>

\* (a manual unlock that the exception skips)
Unwind_LeavesLocked(t) ==
    /\ pc[t] = "unwind"
    /\ pc' = [pc EXCEPT ![t] = "idle"]
    /\ op' = [op EXCEPT ![t] = "none"]
    /\ arg' = [arg EXCEPT ![t] = BadArg]
    /\ UNCHANGED <<collection, holds, waiters, ret, retb, calls, starved, ub,
                   log, recording>>

\* (a notification issued from the exception path as well)
Unwind_Notifies(t) ==
    /\ pc[t] = "unwind"
    /\ holds' = [holds EXCEPT ![t] = FALSE]
    /\ pc' = [pc EXCEPT ![t] = "notify"]
    /\ UNCHANGED <<collection, waiters, op, arg, ret, retb, calls, starved, ub,
                   log, recording>>

\* the constructor of T threw inside fct(): the destructor of the
\* unique_lock releases the mutex while the exception leaves the method
Unwind(t) ==
    /\ pc[t] = "unwind"
    /\ holds' = [holds EXCEPT ![t] = FALSE]
    /\ pc' = [pc EXCEPT ![t] = "idle"]
    /\ op' = [op EXCEPT ![t] = "none"]
    /\ arg' = [arg EXCEPT ![t] = BadArg]
    /\ UNCHANGED <<collection, waiters, ret, retb, calls, starved, ub, log,
                 recording>>

\* _condNewData.notify_one(); then addData_protected returns
Notify(t) ==
    /\ pc[t] = "notify"
    /\ \E W \in WakeSets :
        /\ waiters' = waiters \ W
        /\ pc' = [u \in Threads |->
                    IF u = t THEN "idle" ELSE IF u \in W THEN "relock" ELSE pc[u]]
    /\ op' = [op EXCEPT ![t] = "none"]
    /\ arg' = [arg EXCEPT ![t] = BadArg]
    /\ UNCHANGED <<collection, holds, ret, retb, calls, starved, ub, log,
                 recording>>

\* the steps a thread takes by itself once it is inside a method
Step(t) ==
    \/ Lock(t) \/ Test(t) \/ Wait(t) \/ Relock(t)
    \/ Insert(t) \/ Peek(t) \/ Pop(t) \/ Clear(t) \/ Size(t) \/ Empty(t)
    \/ Unlock(t) \/ Unwind(t) \/ Notify(t)

Next ==
    \E t \in Threads :
        \/ Call(t)
        \/ Lock(t)
        \/ Test(t)
        \/ Wait(t)
        \/ SpuriousWakeup(t)
        \/ Relock(t)
        \/ Insert(t)
        \/ Peek(t)
        \/ Pop(t)
        \/ Clear(t)
        \/ Size(t)
        \/ Empty(t)
        \/ Unlock(t)
        \/ Unwind(t)
        \/ Notify(t)

Spec == Init /\ [][Next]_vars

\* --------------------------------------------------- fair scheduling
\* Every thread inside a method keeps running; a thread that contends for
\* the mutex gets it if the mutex is released again and again.  Calls and
\* spurious wakeups are never forced.
Acquire(t) == Lock(t) \/ Relock(t)

Fairness ==
    \A t \in Threads :
        /\ WF_vars(Step(t))
        /\ SF_vars(Acquire(t))

\* ---------------------------------------- one consumer, the rest producers
Consumers == {"t1"}
PushOps == {"push_front", "push_back"}

CallPC(t) ==
    \E o \in (IF t \in Consumers THEN PopOps ELSE PushOps) :
        \E v \in (IF o \in PushOps THEN Values ELSE {BadArg}) : Invoke(t, o, v)

NextPC ==
    \E t \in Threads :
        \/ CallPC(t)
        \/ Lock(t)
        \/ Test(t)
        \/ Wait(t)
        \/ SpuriousWakeup(t)
        \/ Relock(t)
        \/ Insert(t)
        \/ Pop(t)
        \/ Unlock(t)
        \/ Notify(t)

SpecPC == Init /\ [][NextPC]_vars
FairSpecPC == SpecPC /\ Fairness

\* ------------------------------ threads that query, the rest producers
Queriers == {"t1", "t2"}
QueryOps == {"size", "empty"}

CallQ(t) ==
    \E o \in (IF t \in Queriers THEN QueryOps ELSE PushOps) :
        \E v \in (IF o \in PushOps THEN Values ELSE {BadArg}) : Invoke(t, o, v)

NextQ ==
    \E t \in Threads :
        \/ CallQ(t)
        \/ Lock(t)
        \/ Test(t)
        \/ Wait(t)
        \/ SpuriousWakeup(t)
        \/ Relock(t)
        \/ Insert(t)
        \/ Size(t)
        \/ Empty(t)
        \/ Unlock(t)
        \/ Notify(t)

SpecQ == Init /\ [][NextQ]_vars
FairSpecQ == SpecQ /\ Fairness

\* ------------- threads that push and clear among threads that may block
NonBlockingOps == PushOps \cup {"clear"}
BlockingOps == LoopOps \cup {"empty"}
Blockers == {"t2", "t3"}
NonBlockers == {"t1", "t2"}
OpsNB(t) ==
    (IF t \in Blockers THEN BlockingOps ELSE {})
        \cup (IF t \in NonBlockers THEN NonBlockingOps ELSE {})

CallNB(t) ==
    \E o \in OpsNB(t) :
        \E v \in (IF o \in PushOps THEN Values ELSE {BadArg}) : Invoke(t, o, v)

NextNB ==
    \E t \in Threads :
        \/ CallNB(t)
        \/ Lock(t)
        \/ Test(t)
        \/ Wait(t)
        \/ SpuriousWakeup(t)
        \/ Relock(t)
        \/ Insert(t)
        \/ Peek(t)
        \/ Pop(t)
        \/ Clear(t)
        \/ Size(t)
        \/ Empty(t)
        \/ Unlock(t)
        \/ Notify(t)

SpecNB == Init /\ [][NextNB]_vars
FairSpecNB == SpecNB /\ Fairness

\* ----------- threads calling push, pop_front, pop_back, front, back, size
MixOps == PushOps \cup PopOps \cup PeekOps \cup {"size"}

CallMix(t) ==
    \E o \in MixOps :
        \E v \in (IF o \in PushOps THEN Values ELSE {BadArg}) : Invoke(t, o, v)

NextMix ==
    \E t \in Threads :
        \/ CallMix(t)
        \/ Lock(t)
        \/ Test(t)
        \/ Wait(t)
        \/ SpuriousWakeup(t)
        \/ Relock(t)
        \/ Insert(t)
        \/ Peek(t)
        \/ Pop(t)
        \/ Size(t)
        \/ Unlock(t)
        \/ Notify(t)

SpecMix == Init /\ [][NextMix]_vars

\* ------- threads that push elements of distinct identity, pop, peek, clear
\* The element pushed by a call is the number of that call; the history is
\* kept.
HistOps == PushOps \cup PopOps \cup PeekOps \cup {"clear"}

CallH(t) ==
    \E o \in HistOps :
        Invoke(t, o, IF o \in PushOps THEN calls + 1 ELSE BadArg)

NextH ==
    \E t \in Threads :
        \/ CallH(t)
        \/ Lock(t)
        \/ Test(t)
        \/ Wait(t)
        \/ SpuriousWakeup(t)
        \/ Relock(t)
        \/ Insert(t)
        \/ Peek(t)
        \/ Pop(t)
        \/ Clear(t)
        \/ Unlock(t)
        \/ Notify(t)

SpecH == InitH /\ [][NextH]_vars

\* ------------------------------------- threads that run a fixed program
\* A program gives each thread the calls it makes, in order; each call is
\* chosen among alternatives <<method, argument>>.  A thread is at the
\* call that follows the lock-held statements it has executed.  The
\* history is kept.
Executed(t) == Cardinality({i \in 1..Len(log) : log[i].t = t})

InvokeNext(t, o, v) ==
    /\ pc[t] = "idle"
    /\ pc' = [pc EXCEPT ![t] = "lock"]
    /\ op' = [op EXCEPT ![t] = o]
    /\ arg' = [arg EXCEPT ![t] = v]
    /\ starved' = [starved EXCEPT ![t] = (o \in PopOps /\ collection = <<>>)]
    /\ UNCHANGED <<collection, holds, waiters, ret, retb, calls, ub, log,
                   recording>>

Finished(t, prog) == pc[t] = "idle" /\ Executed(t) = Len(prog[t])

RunProgram(t, prog) ==
    /\ Executed(t) < Len(prog[t])
    /\ \E c \in prog[t][Executed(t) + 1] : InvokeNext(t, c[1], c[2])

\* Thread A = t1: push_back(1), push_back(2).  Thread B = t2:
\* push_front(0).  Thread t3 drains with front() + pop_front(), three
\* times, once both pushers have returned.
DrainProgram ==
    [t \in Threads |->
        CASE t = "t1" -> << {<<"push_back", 1>>}, {<<"push_back", 2>>} >>
          [] t = "t2" -> << {<<"push_front", 0>>} >>
          [] OTHER -> << {<<"front", BadArg>>}, {<<"pop_front", BadArg>>},
                         {<<"front", BadArg>>}, {<<"pop_front", BadArg>>},
                         {<<"front", BadArg>>}, {<<"pop_front", BadArg>>} >>]
Pushers == {"t1", "t2"}

CallDrain(t) ==
    /\ t \notin Pushers => \A u \in Pushers : Finished(u, DrainProgram)
    /\ RunProgram(t, DrainProgram)

NextDrain ==
    \E t \in Threads :
        \/ CallDrain(t)
        \/ Lock(t)
        \/ Test(t)
        \/ Insert(t)
        \/ Peek(t)
        \/ Pop(t)
        \/ Unlock(t)
        \/ Notify(t)

SpecDrain == InitH /\ [][NextDrain]_vars

\* Thread X = t1: front(), then pop_front().  Thread t2: pop_front() or
\* clear().  Thread t3: push_back(1), push_back(2).
Peeker == "t1"
PeekPopProgram ==
    [t \in Threads |->
        CASE t = Peeker -> << {<<"front", BadArg>>}, {<<"pop_front", BadArg>>} >>
          [] t = "t2" -> << {<<"pop_front", BadArg>>, <<"clear", BadArg>>} >>
          [] OTHER -> << {<<"push_back", 1>>}, {<<"push_back", 2>>} >>]

CallPeekPop(t) == RunProgram(t, PeekPopProgram)

NextPeekPop ==
    \E t \in Threads :
        \/ CallPeekPop(t)
        \/ Lock(t)
        \/ Test(t)
        \/ Wait(t)
        \/ SpuriousWakeup(t)
        \/ Relock(t)
        \/ Insert(t)
        \/ Peek(t)
        \/ Pop(t)
        \/ Clear(t)
        \/ Unlock(t)
        \/ Notify(t)

SpecPeekPop == InitH /\ [][NextPeekPop]_vars

\* ================================================================ claims
Holders == {t \in Threads : holds[t]}
\* the positions whose next statement reads or writes _collection
AccessPositions == {"test", "body"}

\* C1: at most one thread holds the mutex, and a thread whose next
\* statement reads or writes _collection holds it; every change of
\* _collection is made by the one thread that holds the mutex.
C1_MutualExclusion ==
    /\ [](/\ Cardinality(Holders) <= 1
          /\ \A t \in Threads : pc[t] \in AccessPositions => holds[t])
    /\ [][collection' # collection =>
            \E t \in Threads : /\ Holders = {t}
                               /\ pc[t] = "body"
                               /\ pc'[t] # "body"]_vars

\* a thread is about to remove an element, holding the mutex, while
\* another thread contends for the mutex
C1_Witness ==
    \E t, u \in Threads :
        /\ holds[t] /\ pc[t] = "body" /\ op[t] \in PopOps
        /\ pc[u] = "lock"

\* C2: a pop reaches its removal only while holding the mutex with a
\* non-empty deque, never runs pop_front/pop_back of an empty std::deque,
\* and a pop called on an empty deque neither removes nor returns before
\* an insertion has happened.
C2_PopNeverOnEmpty ==
    /\ ~ub
    /\ \A t \in Threads :
        /\ (op[t] \in PopOps /\ pc[t] = "body") =>
               (holds[t] /\ collection # <<>> /\ ~starved[t])
        /\ (op[t] \in PopOps /\ pc[t] = "unlock") => ~starved[t]
        /\ starved[t] => (op[t] \in PopOps /\ pc[t] # "idle")

\* one consumer has just removed the only element while a second consumer,
\* woken as well, is about to reacquire the mutex and find the deque empty
C2_Witness ==
    \E t, u \in Threads :
        /\ t # u
        /\ op[t] \in PopOps /\ pc[t] = "unlock"
        /\ op[u] \in PopOps /\ pc[u] = "relock"
        /\ collection = <<>>

\* C3: with one consumer and otherwise producers, a consumer blocked in
\* wait() inside a pop, once the deque holds an element, eventually
\* removes an element and returns.
C3_BlockedPopCompletes ==
    \A t \in Consumers :
        (t \in waiters /\ op[t] \in PopOps /\ collection # <<>>)
            ~> (pc[t] = "unlock" /\ op[t] \in PopOps)

\* the consumer is blocked in wait() and a producer has inserted and
\* released the mutex but not yet notified
C3_Witness ==
    \E t \in Consumers, p \in Threads :
        /\ t \in waiters /\ op[t] = "pop_front"
        /\ pc[p] = "notify"
        /\ collection # <<>>

\* C4: no state in which every thread is finished or blocked in wait(),
\* the deque is non-empty and some thread is blocked inside pop_front,
\* pop_back, front, back or size.
C4_NoLostWakeup ==
    ~ /\ \A t \in Threads : pc[t] \in {"idle", "waiting"}
      /\ collection # <<>>
      /\ \E t \in Threads : pc[t] = "waiting" /\ op[t] \in LoopOps

\* C5: a successful insertion inserts exactly its one element at the named
\* end while holding the mutex, then releases the mutex, then notifies
\* without holding the mutex, waking at most one blocked thread, and only
\* then returns.
C5_InsertNotifyProtocol ==
    [][\A t \in Threads :
        (op[t] \in InsertOps /\ pc'[t] # pc[t]) =>
            /\ (pc[t] = "lock") => (pc'[t] = "body" /\ holds'[t])
            /\ (pc[t] = "body" /\ arg[t] # BadArg) =>
                  /\ holds[t]
                  /\ pc'[t] = "unlock"
                  /\ collection' = IF op[t] \in FrontInsertOps
                                   THEN <<arg[t]>> \o collection
                                   ELSE collection \o <<arg[t]>>
            /\ (pc[t] = "unlock") =>
                  (holds[t] /\ ~holds'[t] /\ pc'[t] = "notify"
                   /\ collection' = collection /\ waiters' = waiters)
            /\ (pc[t] = "notify") =>
                  /\ Holders \cap {t} = {}
                  /\ pc'[t] = "idle"
                  /\ waiters' \subseteq waiters
                  /\ Cardinality(waiters \ waiters') <= 1
                  /\ (waiters # {} => waiters' # waiters)
                  /\ collection' = collection
            /\ (pc'[t] = "idle") => (pc[t] \in {"notify", "unwind"})]_vars

\* an insertion has completed with two threads blocked: one was woken and
\* the other is still blocked
C5_Witness ==
    \E t, w, u \in Threads :
        /\ pc[t] = "idle" /\ calls = 3
        /\ pc[w] = "relock"
        /\ u \in waiters
        /\ Len(collection) = 1

\* C6: a thread blocked in wait() does not hold the mutex, and it leaves
\* wait() only by reacquiring the free mutex.
C6_NoLockAcrossWait ==
    /\ [](\A t \in Threads :
            /\ (t \in waiters <=> pc[t] = "waiting")
            /\ (pc[t] \in {"waiting", "relock"} => ~holds[t]))
    /\ [][\A t \in Threads :
            (pc[t] \in {"waiting", "relock"} /\ pc'[t] \notin {"waiting", "relock"}) =>
                /\ pc[t] = "relock"
                /\ Holders = {}
                /\ holds'[t]
                /\ pc'[t] \in AccessPositions]_vars

\* empty() has resumed after its wait, holding the mutex, while another
\* thread is still blocked
C6_Witness ==
    \E t, u \in Threads :
        /\ op[t] = "empty" /\ pc[t] = "body" /\ holds[t]
        /\ u \in waiters

\* C7: every call of push_front, push_back or clear returns.
C7_PushClearTerminate ==
    \A t \in Threads :
        (pc[t] = "lock" /\ op[t] \in PushOps \cup {"clear"}) ~> (pc[t] = "idle")

\* a push contends for the mutex while the two other threads are blocked
\* in wait()
C7_Witness ==
    \E t \in Threads :
        /\ pc[t] = "lock" /\ op[t] \in PushOps
        /\ waiters = Threads \ {t}

\* C8: front()/back() returns the element at that end of the deque, not an
\* address into the deque, and leaves the deque as it was.
C8_PeekReturnsCopy ==
    /\ [](\A t \in Threads :
            (op[t] \in PeekOps /\ pc[t] = "unlock") =>
                ret[t] = IF op[t] = "front" THEN Head(collection)
                         ELSE collection[Len(collection)])
    /\ [][\A t \in Threads :
            (op[t] \in PeekOps /\ pc[t] = "body" /\ pc'[t] # "body") =>
                collection' = collection]_vars

\* C9: the deque is non-empty when empty() reads it, so empty() never
\* returns true.
C9_EmptyNeverTrue ==
    \A t \in Threads :
        /\ (op[t] = "empty" /\ pc[t] = "body") => collection # <<>>
        /\ (op[t] = "empty" /\ pc[t] = "unlock") => retb[t] = FALSE

\* C10: with no thread removing elements, a call of empty() or size() made
\* while the deque holds an element returns.
C10_QueryReturnsWhenNonEmpty ==
    \A t \in Queriers :
        (pc[t] = "lock" /\ op[t] \in QueryOps /\ collection # <<>>)
            ~> (pc[t] = "idle")

C12_ThrowingInsertIsSafe ==
    [][\A t \in Threads :
        /\ (op[t] \in InsertOps /\ pc[t] = "body" /\ arg[t] = BadArg
                /\ pc'[t] # "body") =>
              (pc'[t] = "unwind" /\ collection' = collection
               /\ waiters' = waiters)
        /\ (pc[t] = "unwind" /\ pc'[t] # "unwind") =>
              /\ holds[t]
              /\ pc'[t] = "idle"
              /\ \A u \in Threads : ~holds'[u]
              /\ collection' = collection
              /\ waiters' = waiters
              /\ \A u \in Threads : pc[u] = "lock" => pc'[u] = "lock"]_vars

\* a construction has thrown on a non-empty deque while another thread
\* waits for the mutex
C12_Witness ==
    \E t, u \in Threads :
        /\ pc[t] = "unwind" /\ op[t] \in InsertOps
        /\ pc[u] = "lock"
        /\ collection # <<>>

\* C14: only a thread that has inserted an element reaches notify_one(),
\* and a thread leaves wait() only by a spurious wakeup or by the
\* notify_one() of such a thread.
C14_OnlyInsertionsNotify ==
    /\ [](\A t \in Threads :
            pc[t] = "notify" => (op[t] \in InsertOps /\ arg[t] # BadArg))
    /\ [][\A w \in Threads :
            (w \in waiters /\ w \notin waiters') =>
                \/ /\ waiters' = waiters \ {w}
                   /\ pc' = [pc EXCEPT ![w] = "relock"]
                \/ \E t \in Threads :
                      /\ pc[t] = "notify" /\ pc'[t] = "idle"
                      /\ op[t] \in InsertOps /\ arg[t] # BadArg
                      /\ waiters' = waiters \ {w}]_vars

\* a removal or a clear has been executed while another thread is blocked
\* in wait(): it returns without waking that thread
C14_Witness ==
    \E t, u \in Threads :
        /\ pc[t] = "unlock" /\ op[t] \in PopOps \cup {"clear"}
        /\ u \in waiters

\* ------------------------------------------------ reading the history
IsInsert(e) == e.op \in InsertOps
IsPop(e) == e.op \in PopOps
IsClear(e) == e.op = "clear"
Inserted == Len(SelectSeq(log, IsInsert))
Removed == Len(SelectSeq(log, IsPop))
NoClear == \A i \in 1..Len(log) : ~IsClear(log[i])
Elements(s) == {s[i] : i \in 1..Len(s)}
Pos(s, v) == CHOOSE i \in 1..Len(s) : s[i] = v
AllIdle == \A t \in Threads : pc[t] = "idle"

\* the position in log of the last clear, 0 if there is none
LastClear ==
    IF NoClear THEN 0
    ELSE CHOOSE i \in 1..Len(log) :
            IsClear(log[i]) /\ \A j \in (i + 1)..Len(log) : ~IsClear(log[j])
InsertedSince(k) == {log[i].v : i \in {j \in (k + 1)..Len(log) : IsInsert(log[j])}}
RemovedSince(k) == {log[i].v : i \in {j \in (k + 1)..Len(log) : IsPop(log[j])}}

\* C13: clear() never waits for data, its lock-held step leaves the deque
\* empty whatever it held, and at any time the deque holds, once each,
\* exactly the elements inserted since the last clear and not yet removed.
C13_ClearDiscardsAll ==
    /\ [](/\ \A t \in Threads :
               op[t] = "clear" => pc[t] \in {"lock", "body", "unlock"}
          /\ Elements(collection) =
                 InsertedSince(LastClear) \ RemovedSince(LastClear)
          /\ Len(collection) = Cardinality(Elements(collection)))
    /\ [][\A t \in Threads :
            (op[t] = "clear" /\ pc[t] = "body" /\ pc'[t] # "body") =>
                (holds[t] /\ collection' = <<>>)]_vars

\* a clear discarded an element and an element pushed concurrently was
\* inserted after it
C13_Witness ==
    /\ Len(log) = 3
    /\ IsInsert(log[1]) /\ IsClear(log[2]) /\ IsInsert(log[3])
    /\ collection = <<log[3].v>>

\* C15: without clear, the elements stored plus the removals executed
\* equal the insertions executed; when every thread has returned, every
\* call has executed its one lock-held statement, so the insertions
\* executed are all the pushes called.
C15_Conservation ==
    NoClear =>
        /\ Len(collection) + Removed = Inserted
        /\ AllIdle => Len(log) = calls

\* all threads have returned after two pushes and one pop
C15_Witness ==
    /\ AllIdle /\ NoClear
    /\ calls = 3 /\ Inserted = 2 /\ Removed = 1 /\ Len(collection) = 1

\* C16: a pop removes exactly one element, no element is removed by two
\* pops, and every element removed was inserted before.
C16_NoDuplication ==
    /\ [](\A j \in 1..Len(log) :
            IsPop(log[j]) =>
                /\ \E i \in 1..(j - 1) : IsInsert(log[i]) /\ log[i].v = log[j].v
                /\ \A i \in 1..(j - 1) : IsPop(log[i]) => log[i].v # log[j].v)
    /\ [][\A t \in Threads :
            (op[t] \in PopOps /\ pc[t] = "body" /\ pc'[t] # "body") =>
                /\ Len(collection') = Len(collection) - 1
                /\ Elements(collection') \subseteq Elements(collection)]_vars

\* one consumer has removed the only element and a second consumer, woken
\* as well, finds nothing left to remove
C16_Witness ==
    \E j \in 1..Len(log) : \E u \in Threads :
        /\ IsPop(log[j]) /\ log[j].t # u
        /\ op[u] \in PopOps /\ pc[u] = "wait"
        /\ collection = <<>>

\* a is pushed before b by the same thread with the same method o
SamePush(i, j, o) ==
    /\ i < j
    /\ log[i].op = o /\ log[j].op = o
    /\ log[i].t = log[j].t

\* C17 (ordering part): of two elements pushed at the same end by one
\* thread, the earlier stays nearer the opposite end while both are stored,
\* and a pop at the opposite end never removes the later one first.
EndLocalOrder ==
    \A i, j \in 1..Len(log) :
        /\ SamePush(i, j, "push_back") =>
            /\ ({log[i].v, log[j].v} \subseteq Elements(collection)) =>
                   Pos(collection, log[i].v) < Pos(collection, log[j].v)
            /\ \A k \in 1..Len(log) :
                   (log[k].op = "pop_front" /\ log[k].v = log[j].v) =>
                       log[i].v \notin Elements(collection)
        /\ SamePush(i, j, "push_front") =>
            /\ ({log[i].v, log[j].v} \subseteq Elements(collection)) =>
                   Pos(collection, log[i].v) > Pos(collection, log[j].v)
            /\ \A k \in 1..Len(log) :
                   (log[k].op = "pop_back" /\ log[k].v = log[j].v) =>
                       log[i].v \notin Elements(collection)

\* C17: the above, and a front() (back()) that runs while the earlier
\* element is at the front (back) observes it: it returns that element.
C17_EndLocalOrdering ==
    /\ EndLocalOrder
    /\ \A i, j \in 1..Len(log) : \A x \in Threads :
        /\ (SamePush(i, j, "push_back") /\ op[x] = "front" /\ pc[x] = "unlock"
                /\ collection # <<>> /\ Head(collection) = log[i].v) =>
               ret[x] = log[i].v
        /\ (SamePush(i, j, "push_front") /\ op[x] = "back" /\ pc[x] = "unlock"
                /\ collection # <<>>
                /\ collection[Len(collection)] = log[i].v) =>
               ret[x] = log[i].v

\* ----------------------------------------- the sequential deque
SeqStep(d, e) ==
    CASE e.op \in {"push_front", "emplace_front"} -> <<e.v>> \o d
      [] e.op \in {"push_back", "emplace_back"} -> d \o <<e.v>>
      [] e.op = "pop_front" -> SubSeq(d, 2, Len(d))
      [] e.op = "pop_back" -> SubSeq(d, 1, Len(d) - 1)
      [] e.op = "clear" -> <<>>
      [] OTHER -> d

RECURSIVE Replay(_)
Replay(l) ==
    IF l = <<>> THEN <<>>
    ELSE SeqStep(Replay(SubSeq(l, 1, Len(l) - 1)), l[Len(l)])

\* C19: the deque always equals the sequential deque after the lock-held
\* steps executed so far, applied one at a time in their order; each
\* removal and each peek acted on the element that the sequential deque
\* has at that end; every change of the deque is one such step.
C19_Linearizable ==
    /\ [](/\ collection = Replay(log)
          /\ \A k \in 1..Len(log) :
               LET d == Replay(SubSeq(log, 1, k - 1)) IN
                 /\ log[k].op \in {"pop_front", "front"} =>
                        (d # <<>> /\ log[k].v = d[1])
                 /\ log[k].op \in {"pop_back", "back"} =>
                        (d # <<>> /\ log[k].v = d[Len(d)]))
    /\ [][collection' # collection =>
            (Len(log') = Len(log) + 1 /\ holds[log'[Len(log')].t])]_vars

\* three threads have each executed a lock-held step, a push_front and a
\* pop_back among them
C19_Witness ==
    /\ Len(log) = 3
    /\ Cardinality({log[i].t : i \in 1..3}) = 3
    /\ \E i, j \in 1..3 : log[i].op = "push_front" /\ log[j].op = "pop_back"

\* the values returned by the front() calls executed so far, in order
IsFront(e) == e.op = "front"
Fronts == SelectSeq(log, IsFront)

\* C18: once the three pushes are executed and before any pop, the deque
\* is <<0, 1, 2>>; the front() calls of the drain return 0, 1, 2 in this
\* order; after the drain the deque is empty.
C18_DrainYields012 ==
    /\ (Inserted = 3 /\ Removed = 0) => collection = <<0, 1, 2>>
    /\ \A k \in 1..Len(Fronts) : Fronts[k].r = k - 1
    /\ (\A t \in Threads : Finished(t, DrainProgram)) => collection = <<>>

\* C18 (contents part): the same without the values that front() returns:
\* the drain peeks at and removes the elements 0, 1, 2 in this order.
DrainOrder ==
    /\ (Inserted = 3 /\ Removed = 0) => collection = <<0, 1, 2>>
    /\ \A k \in 1..Len(Fronts) : Fronts[k].v = k - 1
    /\ \A k \in 1..Removed : SelectSeq(log, IsPop)[k].v = k - 1
    /\ (\A t \in Threads : Finished(t, DrainProgram)) => collection = <<>>

\* thread other removed element e by the step log[k]: a pop of e, or a
\* clear executed while e was stored
RemovedBy(k, e) ==
    \/ IsPop(log[k]) /\ log[k].v = e
    \/ IsClear(log[k]) /\ \E n \in 1..Len(Replay(SubSeq(log, 1, k - 1))) :
                              Replay(SubSeq(log, 1, k - 1))[n] = e

====
